---- MODULE Spec2Model ----
(***************************************************************************)
(* State-machine model of github_rate_monitor.py, a Streamlit script.      *)
(*                                                                         *)
(* A Streamlit script is executed top to bottom once per "script run".     *)
(* A run is started by a user event (a button click) or by st.rerun(); it  *)
(* ends at st.stop(), at st.rerun() (which immediately starts another run) *)
(* or at the end of the file.  st.session_state survives between runs.     *)
(* One action of the model is one user event or one whole script run.      *)
(*                                                                         *)
(* Encoding of Python values:                                              *)
(*   None / a value v        None == <<>>  /  Some(v) == <<v>>             *)
(*   dict                    a function from its keys (strings)            *)
(*   str built by the code   a sequence of text fragments, so that the     *)
(*                           substring test of line 135 can be computed    *)
(*   float ratio             a pair <<numerator, denominator>>             *)
(*   time.time()             an integer number of seconds                  *)
(***************************************************************************)
EXTENDS Integers, Sequences, FiniteSets, TLC

VARIABLES
    api_token,    \* st.session_state.api_token : None or Some(string)
    data,         \* st.session_state.data      : None or Some(dict)
    token_input,  \* value of the text_input widget sent with the last event
    clicked,      \* the button whose click started the pending script run
    pc,           \* "run": a script run is pending, "rest": page at rest
    view,         \* what the last script run left on the page
    response,     \* what the network returned to the last fetch
    result,       \* local `result` of the last script run (None if no fetch)
    run_fetches,  \* number of fetch_rate_limit calls made by the last run
    fetch_token,  \* the token argument of that call (None if no call)
    fetches,      \* fetch_rate_limit calls since the last user event
    event         \* the last user event: the button and the page it was on

vars == <<api_token, data, token_input, clicked, pc, view, response, result,
          run_fetches, fetch_token, fetches, event>>

----------------------------------------------------------------------------
(* Bounds of the model *)

MaxLimit == 2       \* quota limits range over 0..MaxLimit
MaxUsed == 3        \* quota usage ranges over 0..MaxUsed
MaxMinutes == 2     \* reset stamps reach MaxMinutes minutes (+1 s)
MaxFetches == 3     \* the counter `fetches` saturates here

(* Program constants *)

SecondsPerMinute == 60
HttpOk == 200
HttpUnauthorized == 401

----------------------------------------------------------------------------
(* Python values *)

None == <<>>
Some(v) == <<v>>
EmptyDict == [k \in {} |-> 0]

\* d.get(k, default)
Get(d, k, default) == IF k \in DOMAIN d THEN d[k] ELSE default

\* truthiness of a dict (or of the None that .get returns for a missing key)
DictTruthy(d) == DOMAIN d /= {}

\* truthiness of st.session_state.api_token
TokenTruthy(t) == t /= None /\ t[1] /= ""

\* truthiness of st.session_state.data
DataTruthy(d) == d /= None /\ DictTruthy(d[1])

\* `needle in str(msg)` for a message made of text fragments
Contains(msg, needle) == \E i \in DOMAIN msg : msg[i] = needle

Min(a, b) == IF a < b THEN a ELSE b

----------------------------------------------------------------------------
(* Messages *)

AuthFailed == "Authentication Failed"
AuthFailedMsg == <<AuthFailed, ": Invalid Token">>
ApiErrorMsg(code) == <<"API Error: ", ToString(code)>>
JsonDecodeMsg == <<"Expecting value: line 1 column 1 (char 0)">>

ErrorDict(msg) == "error" :> msg

----------------------------------------------------------------------------
(* Inputs: what the network can answer, what the user can type *)

Tokens == {"ghp_a", "ghp_b"}
TokenInputs == Tokens \cup {""}

\* time.time() as read during a render; reset stamps lie around it
NowTimes == {SecondsPerMinute, SecondsPerMinute + 1}
ResetStamps ==
    {m * SecondsPerMinute + d : m \in 0..MaxMinutes, d \in {-1, 0, 1}} \cap Nat
BaseReset == 2 * SecondsPerMinute

\* a ResourceQuota as GitHub sends it
Quota(l, u, r) ==
    [limit |-> l, used |-> u, remaining |-> IF l >= u THEN l - u ELSE 0,
     reset |-> r]

Quotas ==
    {Quota(l, u, BaseReset) : l \in 0..MaxLimit, u \in 0..MaxUsed}
        \cup {Quota(MaxLimit, 1, r) : r \in ResetStamps}

\* a second quota, different from every member of Quotas
AltQuota == [limit |-> MaxLimit + 1, used |-> 1, remaining |-> MaxLimit,
             reset |-> 0]

\* a quota with keys missing (the code reads every key with a default)
PartialQuota == "limit" :> MaxLimit

\* JSON objects a 200 response can carry
Payloads ==
    {EmptyDict}
        \cup {ErrorDict(<<"Bad credentials">>), ErrorDict(AuthFailedMsg)}
        \cup {"resources" :> ("core" :> q) : q \in Quotas}
        \cup {"resources" :> ("core" :> AltQuota @@ "search" :> q) : q \in Quotas}
        \cup {"rate" :> q : q \in Quotas}
        \cup {"resources" :> ("core" :> q) @@ "rate" :> AltQuota : q \in Quotas}
        \cup {"resources" :> ("core" :> EmptyDict) @@ "rate" :> AltQuota,
              "resources" :> ("search" :> Quota(1, 1, BaseReset)) @@ "rate" :> AltQuota,
              "resources" :> ("search" :> AltQuota),
              "resources" :> ("core" :> PartialQuota),
              "resources" :> EmptyDict,
              "rate" :> EmptyDict}

\* str(e) of the exceptions requests.get can raise
TransportErrors ==
    {<<"Connection refused">>, <<"Read timed out">>,
     <<"ProxyError: 407 Proxy ", AuthFailed>>}

StatusCodes == {HttpOk, HttpUnauthorized, 403, 500}

HttpResponse(code, body) ==
    [kind |-> "http", status |-> code, json |-> body, exc |-> <<>>]
Raised(msg) ==
    [kind |-> "exception", status |-> 0, json |-> None, exc |-> msg]
NoResponse == [kind |-> "none", status |-> 0, json |-> None, exc |-> <<>>]

\* json = None: the body is not JSON, response.json() raises
Responses ==
    {HttpResponse(HttpOk, Some(p)) : p \in Payloads}
        \cup {HttpResponse(c, None) : c \in StatusCodes}
        \cup {Raised(m) : m \in TransportErrors}

----------------------------------------------------------------------------
(* Tool functions, lines 21-80 *)

\* faulty variant: the 401 branch of line 34 is missing
fetch_rate_limit_No401(token, resp) ==
    IF resp.kind = "exception" THEN ErrorDict(resp.exc)
    ELSE IF resp.status = HttpOk
         THEN IF resp.json = None THEN ErrorDict(JsonDecodeMsg)
                                  ELSE resp.json[1]
    ELSE ErrorDict(ApiErrorMsg(resp.status))

fetch_rate_limit(token, resp) ==
    IF resp.kind = "exception" THEN ErrorDict(resp.exc)
    ELSE IF resp.status = HttpOk
         THEN IF resp.json = None THEN ErrorDict(JsonDecodeMsg)
                                  ELSE resp.json[1]
    ELSE IF resp.status = HttpUnauthorized THEN ErrorDict(AuthFailedMsg)
    ELSE ErrorDict(ApiErrorMsg(resp.status))

\* int(n / d) for d > 0: truncation toward zero
IntTrunc(n, d) == IF n >= 0 THEN n \div d ELSE -((-n) \div d)

\* faulty variant: the `if diff < 0` guard of line 51 is missing
get_minutes_until_reset_NoGuard(ts, now) ==
    IntTrunc(ts - now, SecondsPerMinute)

get_minutes_until_reset(ts, now) ==
    LET diff == ts - now
    IN  IF diff < 0 THEN 0 ELSE IntTrunc(diff, SecondsPerMinute)

\* min(percent, 1.0) for a ratio percent = <<numerator, denominator>>
MinOne(percent) == IF percent[1] > percent[2] THEN <<1, 1>> ELSE percent

\* faulty variant: st.progress is given percent, not min(percent, 1.0)
visualize_resource_card_NoMin(name, d, now) ==
    LET limit == Get(d, "limit", 0)
        used == Get(d, "used", 0)
        reset_ts == Get(d, "reset", 0)
        percent == IF limit > 0 THEN <<used, limit>> ELSE <<0, 1>>
    IN  [name |-> name, limit |-> limit, used |-> used, reset |-> reset_ts,
         now |-> now, mins |-> get_minutes_until_reset(reset_ts, now),
         progress |-> percent]

\* what one card shows; `now` is the clock read by get_minutes_until_reset
visualize_resource_card(name, d, now) ==
    LET limit == Get(d, "limit", 0)
        used == Get(d, "used", 0)
        reset_ts == Get(d, "reset", 0)
        percent == IF limit > 0 THEN <<used, limit>> ELSE <<0, 1>>
    IN  [name |-> name, limit |-> limit, used |-> used, reset |-> reset_ts,
         now |-> now, mins |-> get_minutes_until_reset(reset_ts, now),
         progress |-> MinOne(percent)]

\* the core summary block, lines 157-175
CoreSummary(overall_core, now) ==
    LET limit == Get(overall_core, "limit", 0)
        used == Get(overall_core, "used", 0)
        remaining == Get(overall_core, "remaining", 0)
        reset_ts == Get(overall_core, "reset", 0)
        mins_left == get_minutes_until_reset(reset_ts, now)
        percent_val == IF limit > 0 THEN <<used, limit>> ELSE <<0, 1>>
    IN  [limit |-> limit, used |-> used, remaining |-> remaining,
         reset |-> reset_ts, now |-> now, mins |-> mins_left,
         progress |-> MinOne(percent_val)]

\* the `resources` dict after the compatibility step, lines 146-151
Resources(d) ==
    LET resources == Get(d, "resources", EmptyDict)
        rate == Get(d, "rate", EmptyDict)
    IN  IF ~DictTruthy(Get(resources, "core", None)) /\ DictTruthy(rate)
        THEN ("core" :> rate) @@ resources
        ELSE resources

\* line 151 assigns into the dict held by the session when the payload has
\* a "resources" entry (data.get returns that very object), and into a
\* fresh dict otherwise
DataAfterRender(d) ==
    IF "resources" \in DOMAIN d THEN ("resources" :> Resources(d)) @@ d ELSE d

----------------------------------------------------------------------------
(* Pages *)

Page(screen, warning, error, relogin, core, cards) ==
    [screen |-> screen, warning |-> warning, error |-> error,
     relogin |-> relogin, core |-> core, cards |-> cards]

\* a run that ended in st.rerun(): the page is about to be redrawn
RerunPage == Page("Rerun", FALSE, <<>>, FALSE, None, EmptyDict)
LoginPage(warning) == Page("LoggedOut", warning, <<>>, FALSE, None, EmptyDict)
ErrorPage(msg, relogin) == Page("ErrorShown", FALSE, msg, relogin, None, EmptyDict)
DashboardPage(core, cards) == Page("Dashboard", FALSE, <<>>, FALSE, core, cards)

\* a script run that made no call of fetch_rate_limit
NoFetch ==
    /\ response' = NoResponse
    /\ result' = None
    /\ run_fetches' = 0
    /\ fetch_token' = None
    /\ UNCHANGED <<fetches, event>>

\* every run consumes the click that started it; the text_input widget
\* keeps its value only while the login view is drawn
EndRun(next_pc, page, text) ==
    /\ pc' = next_pc
    /\ view' = page
    /\ clicked' = "none"
    /\ token_input' = text

----------------------------------------------------------------------------
(* Session state, lines 84-87: the first run of a new session is pending *)

Init ==
    /\ api_token = None
    /\ data = None
    /\ token_input = ""
    /\ clicked = "none"
    /\ pc = "run"
    /\ view = RerunPage
    /\ response = NoResponse
    /\ result = None
    /\ run_fetches = 0
    /\ fetch_token = None
    /\ fetches = 0
    /\ event = [button |-> "none", screen |-> "none"]

----------------------------------------------------------------------------
(* User events: a click on a button that is on the page at rest *)

Click(button, text) ==
    /\ pc = "rest"
    /\ pc' = "run"
    /\ clicked' = button
    /\ token_input' = text
    /\ fetches' = 0
    /\ event' = [button |-> button, screen |-> view.screen]
    /\ UNCHANGED <<api_token, data, view, response, result, run_fetches,
                   fetch_token>>

\* line 100, with the text typed into the field of line 99
ClickConnect == \E t \in TokenInputs :
    /\ view.screen = "LoggedOut"
    /\ Click("Connect", t)

\* line 119; the header is drawn before the fetch block, so the button is
\* on the error page as well
ClickRefresh ==
    /\ view.screen \in {"ErrorShown", "Dashboard"}
    /\ Click("Refresh", "")

\* line 123
ClickLogout ==
    /\ view.screen \in {"ErrorShown", "Dashboard"}
    /\ Click("Logout", "")

\* line 137
ClickTryLoginAgain ==
    /\ view.relogin
    /\ Click("Try Login Again", "")

----------------------------------------------------------------------------
(* Script runs *)

\* faulty variant: line 101 does not test token_input
LoginView_AcceptEmpty ==
    /\ pc = "run"
    /\ ~TokenTruthy(api_token)
    /\ IF clicked = "Connect"
       THEN /\ api_token' = Some(token_input)
            /\ EndRun("run", RerunPage, token_input)
       ELSE /\ UNCHANGED api_token
            /\ EndRun("rest", LoginPage(FALSE), token_input)
    /\ UNCHANGED data
    /\ NoFetch

\* lines 92-106: the login view
LoginView ==
    /\ pc = "run"
    /\ ~TokenTruthy(api_token)
    /\ IF clicked = "Connect"
       THEN IF token_input /= ""
            THEN /\ api_token' = Some(token_input)
                 /\ EndRun("run", RerunPage, token_input)
            ELSE /\ UNCHANGED api_token
                 /\ EndRun("rest", LoginPage(TRUE), token_input)
       ELSE /\ UNCHANGED api_token
            /\ EndRun("rest", LoginPage(FALSE), token_input)
    /\ UNCHANGED data
    /\ NoFetch

\* faulty variant: line 120 is missing
RefreshPressed_KeepData ==
    /\ pc = "run"
    /\ TokenTruthy(api_token)
    /\ clicked = "Refresh"
    /\ UNCHANGED <<api_token, data>>
    /\ EndRun("run", RerunPage, "")
    /\ NoFetch

\* lines 119-121
RefreshPressed ==
    /\ pc = "run"
    /\ TokenTruthy(api_token)
    /\ clicked = "Refresh"
    /\ data' = None
    /\ UNCHANGED api_token
    /\ EndRun("run", RerunPage, "")
    /\ NoFetch

\* faulty variant: line 125 is missing
LogoutPressed_KeepData ==
    /\ pc = "run"
    /\ TokenTruthy(api_token)
    /\ clicked = "Logout"
    /\ api_token' = None
    /\ UNCHANGED data
    /\ EndRun("run", RerunPage, "")
    /\ NoFetch

\* lines 123-126
LogoutPressed ==
    /\ pc = "run"
    /\ TokenTruthy(api_token)
    /\ clicked = "Logout"
    /\ api_token' = None
    /\ data' = None
    /\ EndRun("run", RerunPage, "")
    /\ NoFetch

\* lines 129-143: the data fetch block; resp is the network's answer
DataFetch == \E resp \in Responses :
    /\ pc = "run"
    /\ TokenTruthy(api_token)
    /\ clicked \notin {"Refresh", "Logout"}
    /\ ~DataTruthy(data)
    /\ LET res == fetch_rate_limit(api_token[1], resp)
       IN  /\ response' = resp
           /\ result' = Some(res)
           /\ run_fetches' = 1
           /\ fetch_token' = api_token
           /\ fetches' = Min(fetches + 1, MaxFetches)
           /\ UNCHANGED event
           /\ IF "error" \in DOMAIN res
              THEN LET relogin == Contains(res["error"], AuthFailed)
                   IN  IF relogin /\ clicked = "Try Login Again"
                       THEN /\ api_token' = None
                            /\ UNCHANGED data
                            /\ EndRun("run", RerunPage, "")
                       ELSE /\ UNCHANGED <<api_token, data>>
                            /\ EndRun("rest", ErrorPage(res["error"], relogin), "")
              ELSE /\ data' = Some(res)
                   /\ UNCHANGED api_token
                   /\ EndRun("run", RerunPage, "")

\* lines 145-195: the dashboard; clock[k] is time.time() as read for the
\* record under key k, the core summary being drawn before the cards
RenderDashboard ==
    /\ pc = "run"
    /\ TokenTruthy(api_token)
    /\ clicked \notin {"Refresh", "Logout"}
    /\ DataTruthy(data)
    /\ LET resources == Resources(data[1])
           overall_core == Get(resources, "core", EmptyDict)
           resource_keys == DOMAIN resources \ {"core"}
       IN  \E clock \in [resource_keys \cup {"core"} -> NowTimes] :
              /\ \A k \in resource_keys : clock["core"] <= clock[k]
              /\ data' = Some(DataAfterRender(data[1]))
              /\ EndRun("rest",
                        DashboardPage(
                            IF DictTruthy(overall_core)
                            THEN Some(CoreSummary(overall_core, clock["core"]))
                            ELSE None,
                            [k \in resource_keys |->
                                visualize_resource_card(k, resources[k], clock[k])]),
                        "")
    /\ UNCHANGED api_token
    /\ NoFetch

Next ==
    \/ ClickConnect
    \/ ClickRefresh
    \/ ClickLogout
    \/ ClickTryLoginAgain
    \/ LoginView
    \/ RefreshPressed
    \/ LogoutPressed
    \/ DataFetch
    \/ RenderDashboard

Spec == Init /\ [][Next]_vars

----------------------------------------------------------------------------
(* The four states of the presentation layer *)

InLoggedOut == pc = "rest" /\ view.screen = "LoggedOut"
InErrorShown == pc = "rest" /\ view.screen = "ErrorShown"
InDashboard ==
    /\ pc = "rest"
    /\ view.screen = "Dashboard"
    /\ TokenTruthy(api_token)
    /\ DataTruthy(data)
\* token present, data absent, and the run that will fetch is pending
InLoading ==
    /\ pc = "run"
    /\ clicked = "none"
    /\ TokenTruthy(api_token)
    /\ ~DataTruthy(data)

\* the tagged union of fetch_rate_limit's return value, as line 133 reads it
IsFailure(res) == "error" \in DOMAIN res
IsSuccess(res) == ~IsFailure(res)

\* the records on a dashboard page: the core summary and every card
Shown(page) ==
    (IF page.core = None THEN {} ELSE {page.core[1]})
        \cup {page.cards[k] : k \in DOMAIN page.cards}

\* a core summary that shows the quota dict q
ShowsQuota(core, q) ==
    /\ core /= None
    /\ core[1].limit = Get(q, "limit", 0)
    /\ core[1].used = Get(q, "used", 0)
    /\ core[1].remaining = Get(q, "remaining", 0)
    /\ core[1].reset = Get(q, "reset", 0)

----------------------------------------------------------------------------
(* C1: in Loading the result of the single fetch decides the next state:  *)
(* a Success is stored in the session and the next run draws the          *)
(* Dashboard with token and data present; a Failure ends in ErrorShown    *)
(* with the data still absent and the token unchanged.                    *)
C1_FetchOutcomeDecides ==
    [][/\ InLoading =>
            /\ run_fetches' = 1
            /\ IF IsSuccess(result'[1])
               THEN data' = result' /\ api_token' = api_token /\ pc' = "run"
               ELSE /\ InErrorShown'
                    /\ ~DataTruthy(data')
                    /\ api_token' = api_token
       /\ (pc = "run" /\ run_fetches = 1 /\ IsSuccess(result[1])) => InDashboard'
      ]_vars

(* C2: fetch_rate_limit returns Success carrying the parsed body for      *)
(* every HTTP 200, "Authentication Failed: Invalid Token" for 401,        *)
(* "API Error: c" for any other status c and the stringified exception    *)
(* for a transport exception.                                             *)
C2_Original ==
    run_fetches = 1 =>
        /\ result /= None
        /\ response.kind = "exception" => result[1] = ("error" :> response.exc)
        /\ (response.kind = "http" /\ response.status = 200) =>
                /\ response.json /= None
                /\ result = response.json
                /\ IsSuccess(result[1])
        /\ (response.kind = "http" /\ response.status = 401) =>
                result[1] = ("error" :> <<"Authentication Failed", ": Invalid Token">>)
        /\ (response.kind = "http" /\ response.status \notin {200, 401}) =>
                result[1] = ("error" :> <<"API Error: ", ToString(response.status)>>)

(* C2, amended: as above, except that an HTTP 200 whose body parses as    *)
(* JSON returns that parsed body unchanged (a Success unless the body has *)
(* a top-level "error" key), and an HTTP 200 whose body is not JSON       *)
(* yields Failure with the stringified decoding exception.                *)
C2_Classification ==
    run_fetches = 1 =>
        /\ result /= None
        /\ response.kind \in {"exception", "http"}
        /\ response.kind = "exception" => result[1] = ("error" :> response.exc)
        /\ (response.kind = "http" /\ response.status = 200) =>
                IF response.json /= None
                THEN result = response.json
                ELSE /\ IsFailure(result[1])
                     /\ DOMAIN result[1] = {"error"}
                     /\ result[1]["error"] = JsonDecodeMsg
        /\ (response.kind = "http" /\ response.status = 401) =>
                result[1] = ("error" :> <<"Authentication Failed", ": Invalid Token">>)
        /\ (response.kind = "http" /\ response.status \notin {200, 401}) =>
                result[1] = ("error" :> <<"API Error: ", ToString(response.status)>>)

\* a fetch answered with HTTP 200 and a body that is not JSON
C2_Witness ==
    /\ run_fetches = 1
    /\ response.kind = "http"
    /\ response.status = 200
    /\ response.json = None
    /\ IsFailure(result[1])

(* C3: on the error page "Try Login Again" is offered if and only if the  *)
(* fetch was answered with HTTP 401.                                      *)
C3_ReloginIffUnauthorized ==
    InErrorShown =>
        (view.relogin <=> (response.kind = "http" /\ response.status = 401))

C5_EmptyConnect ==
    [][/\ (/\ pc = "run"
           /\ ~TokenTruthy(api_token)
           /\ clicked = "Connect"
           /\ token_input = "") =>
                /\ api_token' = api_token
                /\ data' = data
                /\ InLoggedOut'
                /\ view'.warning
                /\ run_fetches' = 0
       /\ (pc = "run" /\ run_fetches' > 0) =>
                /\ TokenTruthy(api_token)
                /\ fetch_token' = api_token
      ]_vars

\* the warning is on the login page after an empty Connect
C5_Witness ==
    /\ InLoggedOut
    /\ view.warning
    /\ event = [button |-> "Connect", screen |-> "LoggedOut"]
    /\ api_token = None
    /\ run_fetches = 0

C7_LegacyNormalization ==
    [][(pc = "run" /\ view'.screen = "Dashboard") =>
            LET d == data[1]
                res == Get(d, "resources", EmptyDict)
            IN  /\ ("rate" \in DOMAIN d /\ "core" \notin DOMAIN res) =>
                        IF DictTruthy(d["rate"])
                        THEN ShowsQuota(view'.core, d["rate"])
                        ELSE view'.core = None
                /\ "core" \in DOMAIN res =>
                        IF DictTruthy(res["core"])
                        THEN ShowsQuota(view'.core, res["core"])
                        ELSE view'.core = None
      ]_vars

(* C8: between two user events at most one fetch is made.                 *)
C8_AtMostOneFetch == fetches <= 1

(* C9: every progress value on the dashboard, in the core summary and in  *)
(* every card, is used/limit when limit > 0 and 0 when limit = 0, clamped *)
(* to [0, 1].                                                             *)
C9_ProgressRatio ==
    view.screen = "Dashboard" =>
        \A r \in Shown(view) :
            LET n == r.progress[1]
                m == r.progress[2]
            IN  /\ m > 0
                /\ 0 <= n /\ n <= m
                /\ r.limit = 0 => n = 0
                /\ (r.limit > 0 /\ r.used <= r.limit) => n * r.limit = r.used * m
                /\ (r.limit > 0 /\ r.used > r.limit) => n = m

\* a dashboard with a core summary and a card whose used exceeds its limit
C9_Witness ==
    /\ InDashboard
    /\ view.core /= None
    /\ \E k \in DOMAIN view.cards :
          /\ view.cards[k].used > view.cards[k].limit
          /\ view.cards[k].limit > 0
          /\ view.cards[k].progress = <<1, 1>>

(* C10: every countdown on the dashboard is 0 when the reset stamp is not *)
(* after the clock, floor((ts - now) / 60) when it is, and never negative *)
C10_MinutesUntilReset ==
    view.screen = "Dashboard" =>
        \A r \in Shown(view) :
            /\ r.mins >= 0
            /\ r.reset <= r.now => r.mins = 0
            /\ r.reset > r.now =>
                  /\ 60 * r.mins <= r.reset - r.now
                  /\ r.reset - r.now < 60 * (r.mins + 1)

\* a dashboard with one reset in the past and one more than a minute ahead
C10_Witness ==
    /\ InDashboard
    /\ \E r \in Shown(view) : r.reset < r.now /\ r.mins = 0
    /\ \E r \in Shown(view) : r.reset > r.now + 60 /\ r.mins >= 1

====
